---- MODULE Spec2Model ----
(***************************************************************************)
(* Model of pdfsat.py: the PresenterWindow navigation state machine, the   *)
(* SlideCache it renders through, the presentation session flags and the   *)
(* persisted last slide index.                                             *)
(*                                                                         *)
(* Optional fields (None in the source) are sets: {} is None, {v} is v.    *)
(* Every handler is one action.  raised tells whether the handler that ran *)
(* last let an exception escape, load_result how the last _load_pdf ended. *)
(* trail and pre are history kept by the specifications (Log): the names   *)
(* of the handlers that ran last and the fields the last one started from; *)
(* no handler reads them.  probe is the history of the get_slide calls    *)
(* made on the SlideCache directly (SpecCache).  notes_loader is the notes *)
(* dict held; only the notes label reads it, so the specifications of the  *)
(* navigation leave it alone and SpecNotes and SpecDrop follow it, with    *)
(* notes_file the notes file that is handed over.                          *)
(***************************************************************************)
EXTENDS Integers, FiniteSets, Sequences, TLC

VARIABLES
    slide_cache,                \* "None" | "open" | "closed" (cache object whose doc is closed)
    total_slides,               \* slide_cache.total_slides
    cache,                      \* SlideCache.cache: pages rendered at preview dpi
    fullscreen_cache,           \* SlideCache.fullscreen_cache: pages rendered at fullscreen dpi
    current_slide,
    preview_slide,
    last_preview_before_updown, \* {} or {index}
    last_preview_used,
    remembered_preview,         \* {} or {index}
    is_presenting,
    is_blanked,
    start_time,                 \* TRUE when start_time is not None
    duration_label,             \* "unset" ("Duration: --:--") | "running" (mm:ss)
    fullscreen_window,          \* TRUE once the FullScreenWindow object exists
    fs_is_blanked,              \* FullScreenWindow.is_blanked
    fs_current_pixmap,          \* FullScreenWindow.current_pixmap: {} or {page}
    last_slide,                 \* config Session/last_slide
    pending_update,             \* a QTimer.singleShot(200, update_slides) is outstanding
    pc,                         \* "constructing" (inside __init__) | "running" (event loop)
    trail,                      \* the handlers that ran last, most recent first
    pre,                        \* the fields the most recent handler started from
    raised,                     \* the most recent handler let an exception escape
    load_result,                \* how the most recent _load_pdf ended
    probe,                      \* the last direct get_slide call and the renders so far
    notes_loader,               \* {} or {notes}: the dict of the NotesLoader held
    notes_file                  \* the notes file on disk: the pieces written into it

cacheVars == <<slide_cache, total_slides, cache, fullscreen_cache>>
navVars   == <<current_slide, preview_slide, last_preview_before_updown,
               last_preview_used, remembered_preview>>
sessVars  == <<is_presenting, is_blanked, start_time, duration_label,
               fullscreen_window, fs_is_blanked>>
dispVars  == <<fs_current_pixmap, last_slide>>
histVars  == <<trail, pre, probe>>
notesVars == <<notes_loader, notes_file>>
vars      == <<cacheVars, navVars, sessVars, dispVars, pending_update, pc, raised,
               load_result, histVars, notesVars>>

\* ------------------------------------------------------------------ bounds
MaxSlides  == 2     \* largest page count of a document in Spec
NavSlides  == 3     \* largest page count of a document in SpecNav, SpecLoad, SpecForgive
DeckSlides == 7     \* page count of the document of SpecDeck

Totals     == 0 .. MaxSlides
NavTotals  == 0 .. NavSlides
StoredIdx  == -1 .. NavSlides          \* values last_slide may hold in the config file

\* Outcomes of one rasterizer call: TRUE rendered, FALSE raised.  Every
\* handler that renders takes the set R of outcomes the rasterizer may have.
\* Rendering never feeds back into the navigation fields, so a specification
\* about those may run with a rasterizer that renders every page it has.
RasterOutcomes == BOOLEAN
Renders        == {TRUE}

\* ----------------------------------------------------------------- helpers
ClampNextStay(c, n) == IF c >= n THEN n - 1 ELSE c

\* preview_slide = c + 1, pulled back to the last index when past the end
ClampNext(c, n) == IF c + 1 >= n THEN n - 1 ELSE c + 1

\* preview_slide = c - 1, pulled up to 0 when negative
ClampPrev(c) == IF c - 1 < 0 THEN 0 ELSE c - 1

Snapshot ==
    [ current_slide |-> current_slide,
      preview_slide |-> preview_slide,
      last_preview_before_updown |-> last_preview_before_updown,
      last_preview_used |-> last_preview_used,
      remembered_preview |-> remembered_preview,
      total_slides |-> total_slides,
      slide_cache |-> slide_cache,
      last_slide |-> last_slide ]

\* get_slide(p) returns normally: a hit, or a miss the rasterizer renders.
\* ok is the rasterizer's outcome for this call; a closed document or a page
\* the document does not have cannot be rendered.  self.doc[p] counts a
\* negative p from the end of a document that has pages.
Rendered(C, sc, n, p, ok) == p \in C \/ (sc = "open" /\ n > 0 /\ p < n /\ ok)

AfterGetPoison(C, sc, n, p, ok) == IF sc = "open" /\ p \in 0 .. n - 1 THEN C \cup {p} ELSE C

AfterGetForget(C, sc, n, p, ok) == C

\* the tier's cache after get_slide(p)
AfterGet(C, sc, n, p, ok) == IF Rendered(C, sc, n, p, ok) THEN C \cup {p} ELSE C

\* update_slides() run on the cache object (sc, n, C, F) with the navigation
\* fields cur, prv; hi is "is_presenting and fullscreen_window"; pix and last
\* are the audience window's pixmap and the persisted index before the call.
\* ok1..ok3 are the rasterizer's outcomes for the three get_slide calls.  The
\* first failing call ends the method with the exception (err).
UpdateSlides(sc, n, C, F, pix, last, cur, prv, hi, ok1, ok2, ok3) ==
    LET same == [cache |-> C, fullscreen_cache |-> F, fs_current_pixmap |-> pix,
                 last_slide |-> last, err |-> FALSE]
        r1 == Rendered(C, sc, n, cur, ok1)
        C1 == AfterGet(C, sc, n, cur, ok1)
        r2 == prv < n => Rendered(C1, sc, n, prv, ok2)
        C2 == IF prv < n THEN AfterGet(C1, sc, n, prv, ok2) ELSE C1
        r3 == hi => Rendered(F, sc, n, cur, ok3)
        F3 == IF hi THEN AfterGet(F, sc, n, cur, ok3) ELSE F
    IN  IF sc = "None" THEN same
        ELSE IF ~r1 THEN [same EXCEPT !.err = TRUE]
        ELSE IF ~r2 THEN [same EXCEPT !.cache = C1, !.err = TRUE]
        ELSE IF ~r3 THEN [same EXCEPT !.cache = C2, !.err = TRUE]
        ELSE [cache |-> C2, fullscreen_cache |-> F3,
              fs_current_pixmap |-> IF hi THEN {cur} ELSE pix,
              last_slide |-> cur, err |-> FALSE]

\* the handler's closing self.update_slides() on the present cache object,
\* with the navigation fields the handler has just assigned
Refresh(R, cur, prv) ==
    \E ok1, ok2, ok3 \in R :
        LET u == UpdateSlides(slide_cache, total_slides, cache, fullscreen_cache,
                              fs_current_pixmap, last_slide, cur, prv,
                              is_presenting /\ fullscreen_window, ok1, ok2, ok3)
        IN  /\ cache' = u.cache
            /\ fullscreen_cache' = u.fullscreen_cache
            /\ fs_current_pixmap' = u.fs_current_pixmap
            /\ last_slide' = u.last_slide
            /\ raised' = u.err

\* a handler whose guard is false: nothing but the history changes
NoOp ==
    /\ UNCHANGED <<cacheVars, navVars, sessVars, dispVars, pending_update, load_result>>
    /\ raised' = FALSE

\* ------------------------------------------------------------- SlideCache
CachePages == 2     \* largest page count of a document in SpecCache

\* the keys of the two dicts: <<high_res, page_num>>
Keys == BOOLEAN \X (0 .. CachePages)

\* no get_slide call made yet on a cache that has rendered nothing
NoProbe ==
    [ high_res |-> FALSE, page_num |-> 0, outcome |-> "none",
      cache |-> {}, fullscreen_cache |-> {}, rasterized |-> [k \in Keys |-> 0] ]

\* SlideCache(pdf_path) on a document of n pages
SlideCacheInit(n) ==
    /\ slide_cache' = "open"
    /\ total_slides' = n
    /\ cache' = {}
    /\ fullscreen_cache' = {}

\* SlideCache.get_slide(page_num, high_res); ok is the rasterizer's outcome
\* should the call reach it.  probe keeps the request, how it ended ("hit":
\* page_num was in the tier's dict, "rendered": the rasterizer was invoked
\* and its bitmap stored, "raised": the rasterizer was invoked and raised),
\* the two dicts before the call and the bitmaps rendered per key so far.
get_slide(page_num, high_res, ok) ==
    LET C == IF high_res THEN fullscreen_cache ELSE cache
        outcome == IF page_num \in C THEN "hit"
                   ELSE IF Rendered(C, slide_cache, total_slides, page_num, ok)
                   THEN "rendered" ELSE "raised"
    IN  /\ slide_cache # "None"
        /\ IF high_res
           THEN /\ fullscreen_cache' = AfterGet(C, slide_cache, total_slides, page_num, ok)
                /\ UNCHANGED cache
           ELSE /\ cache' = AfterGet(C, slide_cache, total_slides, page_num, ok)
                /\ UNCHANGED fullscreen_cache
        /\ UNCHANGED <<slide_cache, total_slides>>
        /\ raised' = (outcome = "raised")
        /\ probe' = [ high_res |-> high_res, page_num |-> page_num,
                      outcome |-> outcome,
                      cache |-> cache, fullscreen_cache |-> fullscreen_cache,
                      rasterized |->
                        IF outcome = "rendered"
                        THEN [probe.rasterized EXCEPT ![<<high_res, page_num>>] = @ + 1]
                        ELSE probe.rasterized ]

\* SlideCache.close()
SlideCacheClose ==
    /\ slide_cache = "open"
    /\ slide_cache' = "closed"
    /\ cache' = {}
    /\ fullscreen_cache' = {}
    /\ UNCHANGED total_slides

\* what the audience window's slide_label shows: show_slide and unblank set
\* it to current_pixmap unless the window is blanked, blank clears it
Displayed == IF fs_is_blanked THEN {} ELSE fs_current_pixmap

\* ------------------------------------------------------------ NotesLoader
\* A text is a sequence of characters, each a string of length one.
Whitespace == {" ", "\n"}
Digits     == {"0", "1", "2"}

DigitValue(c) == IF c = "0" THEN 0 ELSE IF c = "1" THEN 1 ELSE 2

\* int(s) of a text of digits
RECURSIVE ToInt(_)
ToInt(s) ==
    IF s = << >> THEN 0
    ELSE 10 * ToInt(SubSeq(s, 1, Len(s) - 1)) + DigitValue(s[Len(s)])

\* the number of digits of t from position i on
RECURSIVE DigitRun(_, _)
DigitRun(t, i) ==
    IF i <= Len(t) /\ t[i] \in Digits THEN 1 + DigitRun(t, i + 1) ELSE 0

Dashes(t, i, k) == i + k - 1 <= Len(t) /\ \A j \in i .. i + k - 1 : t[j] = "-"

\* the length of the match of (---|--\d+--) that starts at position i of t,
\* 0 when there is none: the first alternative is tried first
MatchAt(t, i) ==
    IF Dashes(t, i, 3) THEN 3
    ELSE IF Dashes(t, i, 2) /\ DigitRun(t, i + 2) > 0
            /\ Dashes(t, i + 2 + DigitRun(t, i + 2), 2)
    THEN 2 + DigitRun(t, i + 2) + 2
    ELSE 0

\* re.split(r'(---|--\d+--)', t) from position i on, start the position
\* after the last match: the texts between the matches and the matches
RECURSIVE SplitFrom(_, _, _)
SplitFrom(t, i, start) ==
    IF i > Len(t) THEN << SubSeq(t, start, Len(t)) >>
    ELSE IF MatchAt(t, i) > 0
    THEN << SubSeq(t, start, i - 1), SubSeq(t, i, i + MatchAt(t, i) - 1) >>
         \o SplitFrom(t, i + MatchAt(t, i), i + MatchAt(t, i))
    ELSE SplitFrom(t, i + 1, start)

Split(t) == SplitFrom(t, 1, 1)

\* str.strip()
RECURSIVE Strip(_)
Strip(s) ==
    IF s = << >> THEN s
    ELSE IF s[1] \in Whitespace THEN Strip(Tail(s))
    ELSE IF s[Len(s)] \in Whitespace THEN Strip(SubSeq(s, 1, Len(s) - 1))
    ELSE s

\* re.match(r'^--(\d+)--$', s)
IsNumbered(s) ==
    /\ Len(s) >= 5
    /\ Dashes(s, 1, 2)
    /\ DigitRun(s, 3) = Len(s) - 4
    /\ Dashes(s, Len(s) - 1, 2)

\* self.notes[k] = v that keeps the text an index already has
PutKeepsFirst(d, k, v) == [x \in DOMAIN d \cup {k} |-> IF x \in DOMAIN d THEN d[x] ELSE v]

\* self.notes[k] = v
Put(d, k, v) == [x \in DOMAIN d \cup {k} |-> IF x = k THEN v ELSE d[x]]

\* no entry
EmptyNotes == [x \in {} |-> << >>]

\* the loop of _parse_notes over parts from the i-th on, with the counter
\* current_slide and the dict notes so far
RECURSIVE ParseParts(_, _, _, _)
ParseParts(parts, i, counter, d) ==
    IF i > Len(parts) THEN d
    ELSE LET part_stripped == Strip(parts[i])
         IN  IF part_stripped = << >> THEN ParseParts(parts, i + 1, counter, d)
             ELSE IF part_stripped = <<"-", "-", "-">>
             THEN ParseParts(parts, i + 1, counter + 1, d)
             ELSE IF IsNumbered(part_stripped)
             THEN ParseParts(parts, i + 1,
                             ToInt(SubSeq(part_stripped, 3, Len(part_stripped) - 2)) - 1, d)
             ELSE ParseParts(parts, i + 1, counter, Put(d, counter, part_stripped))

\* NotesLoader(path).notes for a file that holds text
ParseNotes(text) == ParseParts(Split(text), 1, 0, EmptyNotes)

\* NotesLoader.get_notes(slide_num): self.notes.get(slide_num, "")
get_notes(d, slide_num) == IF slide_num \in DOMAIN d THEN d[slide_num] ELSE << >>

\* ------------------------------------------------------------------- state
\* PresenterWindow.__init__ up to its call of _load_last_session: the fields'
\* first values, with stored the values Session/last_slide may have in the
\* config file.
Constructed(stored) ==
    /\ slide_cache = "None"
    /\ total_slides = 0
    /\ cache = {}
    /\ fullscreen_cache = {}
    /\ current_slide = 0
    /\ preview_slide = 1
    /\ last_preview_before_updown = {}
    /\ last_preview_used = FALSE
    /\ remembered_preview = {}
    /\ is_presenting = FALSE
    /\ is_blanked = FALSE
    /\ start_time = FALSE
    /\ duration_label = "unset"
    /\ fullscreen_window = FALSE
    /\ fs_is_blanked = FALSE
    /\ fs_current_pixmap = {}
    /\ last_slide \in stored
    /\ pending_update = FALSE
    /\ pc = "constructing"
    /\ raised = FALSE
    /\ load_result = "none"
    /\ trail = << >>
    /\ pre = Snapshot
    /\ probe = NoProbe
    /\ notes_loader = {}
    /\ notes_file = << >>

\* the config file holds whatever an earlier run left in it
Init == Constructed(StoredIdx)

\* the first run: no config file, last_slide falls back to '0'
InitFirstRun == Constructed({0})

\* --------------------------------------------------------------- navigation
\* frame of a navigation handler: it touches neither the cache object's
\* identity nor the session
NavFrame == UNCHANGED <<slide_cache, total_slides, sessVars, pending_update, load_result>>

CanAdvancePastEnd(sc, prv, n) == sc # "None" /\ prv <= n

\* next_slide's guard
CanAdvance(sc, prv, n) == sc # "None" /\ prv < n

JumpOriginLatest(cur, prv, origin) == IF prv # cur + 1 THEN {cur} ELSE origin

JumpOriginOfTarget(cur, prv, origin) ==
    IF prv # cur + 1 /\ origin = {} THEN {prv} ELSE origin

\* last_preview_before_updown after the first if of next_slide: the slide
\* being left is recorded when the preview is not the next slide and nothing
\* is recorded yet
JumpOrigin(cur, prv, origin) ==
    IF prv # cur + 1 /\ origin = {} THEN {cur} ELSE origin

ForgivenAnywhere(prv, origin, used) == used

\* the condition of the second if of next_slide, on the origin just computed:
\* the jump lands on the recorded slide after a restore
Forgiven(prv, origin, used) == used /\ origin = {prv}

next_slide(R) ==
    IF CanAdvance(slide_cache, preview_slide, total_slides)
    THEN LET origin == JumpOrigin(current_slide, preview_slide,
                                  last_preview_before_updown)
             forgive == Forgiven(preview_slide, origin, last_preview_used)
         IN  /\ last_preview_before_updown' = IF forgive THEN {} ELSE origin
             /\ last_preview_used' = IF forgive THEN FALSE ELSE last_preview_used
             /\ current_slide' = preview_slide
             /\ preview_slide' = ClampNext(preview_slide, total_slides)
             /\ UNCHANGED remembered_preview
             /\ NavFrame
             /\ Refresh(R, current_slide', preview_slide')
    ELSE NoOp

CanRetreatFromFirst(sc, cur) == sc # "None" /\ cur >= 0

\* prev_slide's guard
CanRetreat(sc, cur) == sc # "None" /\ cur > 0

prev_slide(R) ==
    /\ IF CanRetreat(slide_cache, current_slide)
       THEN /\ current_slide' = current_slide - 1
            /\ preview_slide' = ClampNext(current_slide - 1, total_slides)
            /\ UNCHANGED <<last_preview_before_updown, last_preview_used,
                           remembered_preview>>
            /\ NavFrame
            /\ Refresh(R, current_slide', preview_slide')
       ELSE NoOp

preview_next(R) ==
    /\ IF slide_cache # "None" /\ preview_slide < total_slides - 1
       THEN /\ preview_slide' = preview_slide + 1
            /\ UNCHANGED <<current_slide, last_preview_before_updown,
                           last_preview_used, remembered_preview>>
            /\ NavFrame
            /\ Refresh(R, current_slide, preview_slide')
       ELSE NoOp

preview_prev(R) ==
    /\ IF slide_cache # "None" /\ preview_slide > 0
       THEN /\ preview_slide' = preview_slide - 1
            /\ UNCHANGED <<current_slide, last_preview_before_updown,
                           last_preview_used, remembered_preview>>
            /\ NavFrame
            /\ Refresh(R, current_slide, preview_slide')
       ELSE NoOp

\* the value held by an optional field that is set
Value(opt) == CHOOSE v \in opt : TRUE

RestoredAndCleared(origin) == <<Value(origin), {}, TRUE>>

\* the three navigation fields preview_restore_last assigns or keeps:
\* <<preview_slide, last_preview_before_updown, last_preview_used>>
Restored(origin) == <<Value(origin), origin, TRUE>>

preview_restore_last(R) ==
    /\ IF slide_cache # "None" /\ last_preview_before_updown # {}
       THEN /\ preview_slide' = Restored(last_preview_before_updown)[1]
            /\ last_preview_before_updown' = Restored(last_preview_before_updown)[2]
            /\ last_preview_used' = Restored(last_preview_before_updown)[3]
            /\ UNCHANGED <<current_slide, remembered_preview>>
            /\ NavFrame
            /\ Refresh(R, current_slide, preview_slide')
       ELSE NoOp

preview_set_next(R) ==
    /\ IF slide_cache # "None"
       THEN /\ preview_slide' = ClampNext(current_slide, total_slides)
            /\ UNCHANGED <<current_slide, last_preview_before_updown,
                           last_preview_used, remembered_preview>>
            /\ NavFrame
            /\ Refresh(R, current_slide, preview_slide')
       ELSE NoOp

preview_set_prev(R) ==
    /\ IF slide_cache # "None"
       THEN /\ preview_slide' = ClampPrev(current_slide)
            /\ UNCHANGED <<current_slide, last_preview_before_updown,
                           last_preview_used, remembered_preview>>
            /\ NavFrame
            /\ Refresh(R, current_slide, preview_slide')
       ELSE NoOp

preview_remember ==
    /\ IF slide_cache # "None"
       THEN /\ remembered_preview' = {preview_slide}
            /\ UNCHANGED <<current_slide, preview_slide, last_preview_before_updown,
                           last_preview_used>>
            /\ UNCHANGED <<cacheVars, sessVars, dispVars, pending_update, load_result>>
            /\ raised' = FALSE
       ELSE NoOp

preview_goto_remembered_once(R) ==
    /\ IF slide_cache # "None" /\ remembered_preview # {}
       THEN /\ preview_slide' = Value(remembered_preview)
            /\ remembered_preview' = {}
            /\ UNCHANGED <<current_slide, last_preview_before_updown, last_preview_used>>
            /\ NavFrame
            /\ Refresh(R, current_slide, preview_slide')
       ELSE NoOp

preview_goto_remembered(R) ==
    /\ IF slide_cache # "None" /\ remembered_preview # {}
       THEN /\ preview_slide' = Value(remembered_preview)
            /\ UNCHANGED <<current_slide, last_preview_before_updown,
                           last_preview_used, remembered_preview>>
            /\ NavFrame
            /\ Refresh(R, current_slide, preview_slide')
       ELSE NoOp

\* ------------------------------------------------------------------ loading
\* current_slide after a load: the stored index when restoring and valid
StartSlide(restore, stored, n) ==
    IF restore /\ 0 <= stored /\ stored < n THEN stored ELSE 0

\* _load_pdf(pdf_path, restore_slide) for a document of n pages.  fail is the
\* statement of the try block that raises: "open" (SlideCache(pdf_path)),
\* "notes" (NotesLoader on the co-located notes file), "config" (int() of the
\* stored last_slide, restoring loads only) or "none".  The except clause
\* reports the error and returns, so nothing escapes.
\* load_result: "ok" when the navigation fields were reset (the first
\* update_slides may still have failed and been reported).
load_pdf(R, n, restore, fail) ==
    /\ raised' = FALSE
    /\ UNCHANGED sessVars
    /\ IF fail = "open"
       THEN \* the old cache, if any, was closed before the constructor raised
            /\ slide_cache' = IF slide_cache = "None" THEN "None" ELSE "closed"
            /\ cache' = {}
            /\ fullscreen_cache' = {}
            /\ UNCHANGED <<total_slides, navVars, dispVars, pending_update>>
            /\ load_result' = "open_failed"
       ELSE IF fail \in {"notes", "config"}
       THEN \* the new cache is installed, the navigation fields are not yet reset
            /\ slide_cache' = "open"
            /\ total_slides' = n
            /\ cache' = {}
            /\ fullscreen_cache' = {}
            /\ UNCHANGED <<navVars, dispVars, pending_update>>
            /\ load_result' = IF fail = "notes" THEN "notes_failed" ELSE "config_failed"
       ELSE LET cur == StartSlide(restore, last_slide, n)
                prv == ClampNext(cur, n)
            IN  /\ slide_cache' = "open"
                /\ total_slides' = n
                /\ current_slide' = cur
                /\ preview_slide' = prv
                /\ last_preview_before_updown' = {}
                /\ last_preview_used' = FALSE
                /\ remembered_preview' = {}
                /\ IF restore
                   THEN /\ pending_update' = TRUE
                        /\ cache' = {}
                        /\ fullscreen_cache' = {}
                        /\ UNCHANGED dispVars
                        /\ load_result' = "ok"
                   ELSE \E ok1, ok2, ok3 \in R :
                          LET u == UpdateSlides("open", n, {}, {}, fs_current_pixmap,
                                                last_slide, cur, prv,
                                                is_presenting /\ fullscreen_window,
                                                ok1, ok2, ok3)
                          IN  /\ cache' = u.cache
                              /\ fullscreen_cache' = u.fullscreen_cache
                              /\ fs_current_pixmap' = u.fs_current_pixmap
                              /\ last_slide' = u.last_slide
                              /\ load_result' = "ok"
                              /\ UNCHANGED pending_update

\* the QTimer.singleShot(200, self.update_slides) of a restoring load fires
deferred_update(R) ==
    /\ pending_update
    /\ pending_update' = FALSE
    /\ UNCHANGED <<slide_cache, total_slides, navVars, sessVars, load_result>>
    /\ Refresh(R, current_slide, preview_slide)

\* ------------------------------------------------------------------ session
\* _start_presentation() entered with fullscreen cache F and current slide
\* cur: the window is created and shown, then the slide is fetched at
\* fullscreen dpi (rasterizer outcome ok); if that raises, no flag is set.
StartPresentation(F, cur, ok) ==
    /\ fullscreen_window' = TRUE
    /\ fullscreen_cache' = AfterGet(F, slide_cache, total_slides, cur, ok)
    /\ UNCHANGED fs_is_blanked
    /\ IF Rendered(F, slide_cache, total_slides, cur, ok)
       THEN /\ fs_current_pixmap' = {cur}
            /\ is_presenting' = TRUE
            /\ is_blanked' = FALSE
            /\ start_time' = TRUE
            /\ UNCHANGED duration_label
            /\ raised' = FALSE
       ELSE /\ UNCHANGED <<is_presenting, is_blanked, start_time, duration_label>>
            /\ raised' = TRUE

start_from_beginning(R) ==
    /\ IF slide_cache # "None"
       THEN /\ current_slide' = 0
            /\ preview_slide' = 1
            /\ UNCHANGED <<last_preview_before_updown, last_preview_used,
                           remembered_preview, slide_cache, total_slides,
                           pending_update, load_result>>
            /\ \E ok1, ok2, ok3, ok4 \in R :
                 LET u == UpdateSlides(slide_cache, total_slides, cache,
                                       fullscreen_cache, fs_current_pixmap, last_slide,
                                       0, 1, is_presenting /\ fullscreen_window,
                                       ok1, ok2, ok3)
                 IN  /\ cache' = u.cache
                     /\ last_slide' = u.last_slide
                     /\ IF u.err
                        THEN /\ fullscreen_cache' = u.fullscreen_cache
                             /\ fs_current_pixmap' = u.fs_current_pixmap
                             /\ UNCHANGED sessVars
                             /\ raised' = TRUE
                        ELSE /\ StartPresentation(u.fullscreen_cache, 0, ok4)
                             /\ IF raised'
                                THEN fs_current_pixmap' = u.fs_current_pixmap
                                ELSE TRUE
       ELSE NoOp

start_from_current(R) ==
    /\ IF slide_cache # "None"
       THEN /\ UNCHANGED <<navVars, slide_cache, total_slides, cache, last_slide,
                           pending_update, load_result>>
            /\ \E ok \in R :
                 /\ StartPresentation(fullscreen_cache, current_slide, ok)
                 /\ IF raised' THEN UNCHANGED fs_current_pixmap ELSE TRUE
       ELSE NoOp

stop_presenting_keeps_blank ==
    /\ is_presenting' = FALSE
    /\ start_time' = FALSE
    /\ duration_label' = "unset"
    /\ UNCHANGED <<is_blanked, fullscreen_window, fs_is_blanked>>
    /\ UNCHANGED <<cacheVars, navVars, dispVars, pending_update, load_result>>
    /\ raised' = FALSE

stop_presenting ==
    /\ is_presenting' = FALSE
    /\ is_blanked' = FALSE
    /\ start_time' = FALSE
    /\ duration_label' = "unset"
    /\ UNCHANGED <<fullscreen_window, fs_is_blanked>>
    /\ UNCHANGED <<cacheVars, navVars, dispVars, pending_update, load_result>>
    /\ raised' = FALSE

toggle_blank_no_push(R) ==
    /\ IF is_presenting /\ fullscreen_window
       THEN /\ is_blanked' = ~is_blanked
            /\ fs_is_blanked' = ~is_blanked
            /\ UNCHANGED <<is_presenting, start_time, duration_label, fullscreen_window>>
            /\ UNCHANGED <<cacheVars, navVars, dispVars, pending_update, load_result>>
            /\ raised' = FALSE
       ELSE NoOp

toggle_blank(R) ==
    /\ IF is_presenting /\ fullscreen_window
       THEN /\ is_blanked' = ~is_blanked
            /\ fs_is_blanked' = ~is_blanked
            /\ UNCHANGED <<is_presenting, start_time, duration_label, fullscreen_window>>
            /\ UNCHANGED <<slide_cache, total_slides, cache, navVars, last_slide,
                           pending_update, load_result>>
            /\ IF ~is_blanked
               THEN \* blank()
                    /\ UNCHANGED <<fullscreen_cache, fs_current_pixmap>>
                    /\ raised' = FALSE
               ELSE \* unblank(), then the current slide is fetched and shown
                    \E ok \in R :
                      /\ fullscreen_cache' = AfterGet(fullscreen_cache, slide_cache,
                                                      total_slides, current_slide, ok)
                      /\ IF Rendered(fullscreen_cache, slide_cache, total_slides,
                                     current_slide, ok)
                         THEN /\ fs_current_pixmap' = {current_slide}
                              /\ raised' = FALSE
                         ELSE /\ UNCHANGED fs_current_pixmap
                              /\ raised' = TRUE
       ELSE NoOp

update_time_always ==
    /\ duration_label' = "running"
    /\ UNCHANGED <<is_presenting, is_blanked, start_time, fullscreen_window,
                   fs_is_blanked>>
    /\ UNCHANGED <<cacheVars, navVars, dispVars, pending_update, load_result>>
    /\ raised' = FALSE

\* the one-second timer
update_time ==
    /\ duration_label' = IF start_time THEN "running" ELSE duration_label
    /\ UNCHANGED <<is_presenting, is_blanked, start_time, fullscreen_window,
                   fs_is_blanked>>
    /\ UNCHANGED <<cacheVars, navVars, dispVars, pending_update, load_result>>
    /\ raised' = FALSE

\* ------------------------------------------------------------- life cycle
\* _load_last_session(), the last statement of __init__ that touches the
\* state: with a last_file that still exists the document (n pages) is
\* loaded with restore_slide=True, otherwise nothing is loaded.
load_last_session(R, has_last, n, fail) ==
    /\ pc = "constructing"
    /\ pc' = "running"
    /\ IF has_last
       THEN load_pdf(R, n, TRUE, fail)
       ELSE NoOp

\* closeEvent(), then the program is started again: the fields are those of
\* a fresh PresenterWindow, the config file is what the last save left.
restart ==
    /\ pc = "running"
    /\ pc' = "constructing"
    /\ slide_cache' = "None"
    /\ total_slides' = 0
    /\ cache' = {}
    /\ fullscreen_cache' = {}
    /\ current_slide' = 0
    /\ preview_slide' = 1
    /\ last_preview_before_updown' = {}
    /\ last_preview_used' = FALSE
    /\ remembered_preview' = {}
    /\ is_presenting' = FALSE
    /\ is_blanked' = FALSE
    /\ start_time' = FALSE
    /\ duration_label' = "unset"
    /\ fullscreen_window' = FALSE
    /\ fs_is_blanked' = FALSE
    /\ fs_current_pixmap' = {}
    /\ pending_update' = FALSE
    /\ raised' = FALSE
    /\ load_result' = "none"
    /\ UNCHANGED last_slide

\* ------------------------------------------------------------ specifications
\* History: handler c has just run.  A specification keeps the names of the
\* last depth handlers and, when snap, the fields the last one started from.
Log(c, depth, snap) ==
    /\ trail' = IF Len(trail) < depth
                THEN <<c>> \o trail
                ELSE SubSeq(<<c>> \o trail, 1, depth)
    /\ pre' = IF snap THEN Snapshot ELSE pre
    /\ UNCHANGED <<probe, notesVars>>

\* an event handler runs in the event loop
Handle(c, A, depth, snap) ==
    /\ pc = "running"
    /\ A
    /\ UNCHANGED pc
    /\ Log(c, depth, snap)

\* __init__ ends: sessions are the answers to "is there a last_file that
\* still exists".
Construct(R, sessions, totals, depth, snap) ==
    \E has_last \in sessions, n \in totals, fail \in {"none", "open", "notes", "config"} :
        /\ load_last_session(R, has_last, n, fail)
        /\ Log(IF has_last THEN "load_pdf_restore" ELSE "no_session", depth, snap)

Restart(depth, snap) == restart /\ Log("restart", depth, snap)

Navigate(R, depth, snap) ==
    \/ Handle("next_slide", next_slide(R), depth, snap)
    \/ Handle("prev_slide", prev_slide(R), depth, snap)
    \/ Handle("preview_next", preview_next(R), depth, snap)
    \/ Handle("preview_prev", preview_prev(R), depth, snap)
    \/ Handle("preview_restore_last", preview_restore_last(R), depth, snap)
    \/ Handle("preview_set_next", preview_set_next(R), depth, snap)
    \/ Handle("preview_set_prev", preview_set_prev(R), depth, snap)
    \/ Handle("preview_remember", preview_remember, depth, snap)
    \/ Handle("preview_goto_remembered", preview_goto_remembered(R), depth, snap)

\* open_pdf, a dropped file: _load_pdf(path) with restore_slide=False
Load(R, totals, fails, depth, snap) ==
    \E n \in totals, fail \in fails :
        Handle("load_pdf", load_pdf(R, n, FALSE, fail), depth, snap)

GoLive(R, depth, snap) ==
    Handle("start_from_beginning", start_from_beginning(R), depth, snap)

Session(R, depth, snap) ==
    \/ Handle("start_from_current", start_from_current(R), depth, snap)
    \/ Handle("stop_presenting", stop_presenting, depth, snap)
    \/ Handle("toggle_blank", toggle_blank(R), depth, snap)
    \/ Handle("update_time", update_time, depth, snap)

Deferred(R, depth, snap) ==
    Handle("deferred_update", deferred_update(R), depth, snap)

LoadFailures == {"none", "open", "notes"}

\* The whole program: every handler, any rasterizer, documents of up to
\* MaxSlides pages.
Next ==
    \/ Construct(RasterOutcomes, BOOLEAN, Totals, 0, FALSE)
    \/ Restart(0, FALSE)
    \/ Navigate(RasterOutcomes, 0, FALSE)
    \/ Load(RasterOutcomes, Totals, LoadFailures, 0, FALSE)
    \/ Deferred(RasterOutcomes, 0, FALSE)
    \/ GoLive(RasterOutcomes, 0, FALSE)
    \/ Session(RasterOutcomes, 0, FALSE)

Spec == Init /\ [][Next]_vars

\* The navigation state machine: a first run of the program in which
\* documents of up to NavSlides pages are loaded, every load succeeding,
\* with every handler that assigns a navigation field.  The last handler and
\* the fields it started from are kept.
NextNav ==
    \/ Construct(Renders, {FALSE}, NavTotals, 1, TRUE)
    \/ Navigate(Renders, 1, TRUE)
    \/ Load(Renders, NavTotals, {"none"}, 1, TRUE)
    \/ GoLive(Renders, 1, TRUE)

SpecNav == InitFirstRun /\ [][NextNav]_vars

\* Loading: runs of the program started over and over on what the config
\* file holds, each restoring or not, with documents of up to NavSlides
\* pages and the two handlers that move current_slide.
NextLoad ==
    \/ Construct(Renders, BOOLEAN, NavTotals, 1, TRUE)
    \/ Restart(1, TRUE)
    \/ Load(Renders, NavTotals, LoadFailures, 1, TRUE)
    \/ Deferred(Renders, 1, TRUE)
    \/ Handle("next_slide", next_slide(Renders), 1, TRUE)
    \/ Handle("prev_slide", prev_slide(Renders), 1, TRUE)

SpecLoad == Init /\ [][NextLoad]_vars

\* The jump scenario: one document of DeckSlides pages and the three handlers
\* of the scenario.  trail holds the handlers run since the fields last were
\* at the scenario's start (at most ScenarioLen of them, else it is empty),
\* pre the fields at that start.
ScenarioLen == 5

ScenarioStart ==
    /\ slide_cache = "open"
    /\ current_slide = 5
    /\ preview_slide = 6
    /\ last_preview_before_updown = {}
    /\ last_preview_used = FALSE
    /\ remembered_preview = {}

LogSince(c, start) ==
    /\ trail' = IF start THEN <<c>>
                ELSE IF trail = << >> \/ Len(trail) >= ScenarioLen THEN << >>
                ELSE <<c>> \o trail
    /\ pre' = IF start THEN Snapshot ELSE pre
    /\ UNCHANGED <<probe, notesVars>>

HandleSince(c, A) ==
    /\ pc = "running"
    /\ A
    /\ UNCHANGED pc
    /\ LogSince(c, ScenarioStart)

NextDeck ==
    \/ load_last_session(Renders, FALSE, DeckSlides, "none") /\ LogSince("no_session", FALSE)
    \/ HandleSince("load_pdf", load_pdf(Renders, DeckSlides, FALSE, "none"))
    \/ HandleSince("next_slide", next_slide(Renders))
    \/ HandleSince("preview_prev", preview_prev(Renders))
    \/ HandleSince("preview_restore_last", preview_restore_last(Renders))

SpecDeck == InitFirstRun /\ [][NextDeck]_vars

\* The detours: the handlers that record, use and forgive a jump origin, and
\* the loads between them, some with a notes file that cannot be read.  The
\* names of the last two handlers are kept; pre is the state between the two.
ForgiveDepth == 2

NextForgive ==
    \/ Construct(Renders, {FALSE}, NavTotals, ForgiveDepth, TRUE)
    \/ Load(Renders, NavTotals, {"none", "notes"}, ForgiveDepth, TRUE)
    \/ Handle("next_slide", next_slide(Renders), ForgiveDepth, TRUE)
    \/ Handle("prev_slide", prev_slide(Renders), ForgiveDepth, TRUE)
    \/ Handle("preview_prev", preview_prev(Renders), ForgiveDepth, TRUE)
    \/ Handle("preview_restore_last", preview_restore_last(Renders), ForgiveDepth, TRUE)

SpecForgive == InitFirstRun /\ [][NextForgive]_vars

\* ------------------------------------------------------------------- claims
Min(a, b) == IF a <= b THEN a ELSE b

\* the handler that ran last (specifications that keep one name)
Last(c) == trail = <<c>>

\* the navigation fields are what they were before the last handler
NavSame ==
    /\ current_slide = pre.current_slide
    /\ preview_slide = pre.preview_slide
    /\ last_preview_before_updown = pre.last_preview_before_updown
    /\ last_preview_used = pre.last_preview_used
    /\ remembered_preview = pre.remembered_preview

\* the last handler was next_slide / prev_slide and its guard held
Advanced ==
    Last("next_slide") /\ pre.slide_cache # "None" /\ pre.preview_slide < pre.total_slides

Retreated ==
    Last("prev_slide") /\ pre.slide_cache # "None" /\ pre.current_slide > 0

\* C1 (SpecNav): once a document with at least one page is loaded, current
\* is a valid index, 0 <= current < total_slides, after every handler.
C1_CurrentInRange ==
    (load_result = "ok" /\ total_slides >= 1)
        => (0 <= current_slide /\ current_slide < total_slides)

\* an advance issued on the last slide has run
C1_Witness ==
    /\ load_result = "ok"
    /\ Advanced
    /\ pre.total_slides >= 2
    /\ pre.current_slide = pre.total_slides - 1
    /\ current_slide = total_slides - 1

\* C2 (SpecNav), the claim as stated, for documents with pages: preview
\* stays in [0, total_slides], and a handler that makes it total_slides is
\* an advance issued on the last slide.
C2_PreviewRange ==
    (load_result = "ok" /\ total_slides >= 1)
        => /\ 0 <= preview_slide /\ preview_slide <= total_slides
           /\ (preview_slide = total_slides /\ pre.preview_slide # preview_slide)
                => (Last("next_slide") /\ pre.current_slide = pre.total_slides - 1)

\* C3 (SpecNav), the claim as stated, for documents with pages: an advance
\* that fires sets current to the old preview and preview to
\* min(current + 1, total_slides), the end sentinel on the last slide.
C3_AdvanceToSentinel ==
    (Advanced /\ load_result = "ok" /\ total_slides >= 1)
        => /\ current_slide = pre.preview_slide
           /\ preview_slide = Min(current_slide + 1, total_slides)

C5_LoadYields ==
    ((Last("load_pdf") \/ Last("load_pdf_restore")) /\ load_result = "ok")
        => /\ current_slide =
                IF Last("load_pdf_restore")
                   /\ 0 <= pre.last_slide /\ pre.last_slide < total_slides
                THEN pre.last_slide ELSE 0
           /\ preview_slide =
                IF total_slides > 1
                THEN Min(current_slide + 1, total_slides - 1) ELSE 0
           /\ last_preview_before_updown = {}
           /\ last_preview_used = FALSE
           /\ remembered_preview = {}

\* C6 (SpecNav): a retreat that fires gives current - 1 and preview =
\* min(new current + 1, total_slides - 1), never the end sentinel, whatever
\* preview was; the three slots keep their values.
C6_RetreatEffect ==
    Retreated
        => /\ current_slide = pre.current_slide - 1
           /\ preview_slide = Min(current_slide + 1, total_slides - 1)
           /\ preview_slide # total_slides
           /\ last_preview_before_updown = pre.last_preview_before_updown
           /\ last_preview_used = pre.last_preview_used
           /\ remembered_preview = pre.remembered_preview

\* a retreat has discarded a preview that was not current + 1
C6_Witness ==
    /\ Retreated
    /\ load_result = "ok"
    /\ pre.preview_slide # pre.current_slide + 1
    /\ pre.last_preview_before_updown # {}
    /\ preview_slide = current_slide + 1

\* the last handler ran with its precondition violated
C7_Inert ==
    /\ pre.slide_cache # "None"
    /\ \/ Last("next_slide") /\ pre.preview_slide >= pre.total_slides
       \/ Last("prev_slide") /\ pre.current_slide <= 0
       \/ Last("preview_next") /\ pre.preview_slide >= pre.total_slides - 1
       \/ Last("preview_prev") /\ pre.preview_slide <= 0
       \/ Last("preview_restore_last") /\ pre.last_preview_before_updown = {}
       \/ Last("preview_goto_remembered") /\ pre.remembered_preview = {}

\* C7 (SpecNav): a navigation handler run with its precondition violated
\* changes none of the five navigation fields and raises nothing.
C7_SilentNoOp == C7_Inert => (NavSame /\ ~raised)

\* an advance was issued with preview at the end sentinel
C7_Witness ==
    /\ Last("next_slide")
    /\ load_result = "ok"
    /\ pre.slide_cache = "open"
    /\ pre.total_slides >= 1
    /\ pre.preview_slide = pre.total_slides

\* C8 (SpecNav): the bookkeeping of an advance that fires: the origin
\* becomes the old current when preview was not current + 1 and no origin
\* was set; origin and consumed are cleared when consumed was true and the
\* origin was the preview; otherwise both are unchanged; remembered is kept.
C8_Bookkeeping ==
    Advanced
        => LET detour   == /\ pre.preview_slide # pre.current_slide + 1
                           /\ pre.last_preview_before_updown = {}
               consumed == /\ pre.last_preview_used
                           /\ pre.last_preview_before_updown = {pre.preview_slide}
           IN  /\ detour => /\ last_preview_before_updown = {pre.current_slide}
                            /\ last_preview_used = pre.last_preview_used
               /\ consumed => /\ last_preview_before_updown = {}
                              /\ last_preview_used = FALSE
               /\ (~detour /\ ~consumed)
                    => /\ last_preview_before_updown = pre.last_preview_before_updown
                       /\ last_preview_used = pre.last_preview_used
               /\ remembered_preview = pre.remembered_preview

\* an advance ran with consumed true and an origin that was not the preview
C8_Witness ==
    /\ Advanced
    /\ pre.last_preview_used
    /\ pre.last_preview_before_updown # {}
    /\ pre.last_preview_before_updown # {pre.preview_slide}
    /\ last_preview_used

\* C9 (SpecNav): a restore with the origin set makes preview the origin and
\* consumed true, keeps origin, current and remembered; a restore issued
\* again (preview already the origin, consumed already true) changes nothing.
C9_RestoreEffect ==
    (Last("preview_restore_last") /\ pre.slide_cache # "None"
       /\ pre.last_preview_before_updown # {})
        => /\ {preview_slide} = pre.last_preview_before_updown
           /\ last_preview_used
           /\ last_preview_before_updown = pre.last_preview_before_updown
           /\ current_slide = pre.current_slide
           /\ remembered_preview = pre.remembered_preview
           /\ (pre.last_preview_used
               /\ pre.last_preview_before_updown = {pre.preview_slide}) => NavSame

\* a first restore has moved the preview to the origin
C9_Witness ==
    /\ Last("preview_restore_last")
    /\ pre.last_preview_before_updown # {}
    /\ ~pre.last_preview_used
    /\ pre.preview_slide # preview_slide
    /\ last_preview_used

\* C10 (SpecForgive), the claim as stated: when preview_restore_last has run
\* with an origin set and next_slide runs right after it, current is the
\* former origin, the origin is unset and consumed is false.
C10_DetourForgiven ==
    (trail = <<"next_slide", "preview_restore_last">>
       /\ pre.last_preview_before_updown # {})
        => /\ {current_slide} = pre.last_preview_before_updown
           /\ last_preview_before_updown = {}
           /\ last_preview_used = FALSE

\* an advance ran on a second detour: an origin was recorded before, no
\* restore has used it, and preview was steered away from current + 1 again
C11_SecondDetour ==
    /\ Advanced
    /\ pre.last_preview_before_updown # {}
    /\ ~pre.last_preview_used
    /\ pre.preview_slide # pre.current_slide + 1

\* C11 (SpecNav), the claim as stated: after two detours in succession with
\* no restore between them, the origin is the current of the latest detour.
C11_LatestOriginKept ==
    C11_SecondDetour => last_preview_before_updown = {pre.current_slide}

\* C11 (SpecNav), amended: after two detours in succession with no restore
\* between them, the origin is still the one the first detour recorded; the
\* second detour records nothing.
C11_FirstOriginKept ==
    C11_SecondDetour
        => /\ last_preview_before_updown = pre.last_preview_before_updown
           /\ ~last_preview_used

\* a second detour has run at a current other than the recorded origin
C11_Witness ==
    /\ C11_SecondDetour
    /\ load_result = "ok"
    /\ pre.last_preview_before_updown # {pre.current_slide}
    /\ current_slide = pre.preview_slide

\* C12 (SpecLoad), the claim as stated, for documents with pages: SpecLoad
\* runs loads, advances and retreats and no command that steers the preview,
\* so after a load that succeeded the origin is never set.
C12_NoSteeringNoOrigin ==
    (load_result = "ok" /\ total_slides >= 1) => last_preview_before_updown = {}

\* Steering: loads of documents of up to NavSlides pages, some with a notes
\* file that cannot be read, the two handlers that move current_slide and
\* the four that steer the preview.
NextSteer ==
    \/ Construct(Renders, {FALSE}, NavTotals, 1, TRUE)
    \/ Load(Renders, NavTotals, {"none", "notes"}, 1, TRUE)
    \/ Handle("next_slide", next_slide(Renders), 1, TRUE)
    \/ Handle("prev_slide", prev_slide(Renders), 1, TRUE)
    \/ Handle("preview_next", preview_next(Renders), 1, TRUE)
    \/ Handle("preview_prev", preview_prev(Renders), 1, TRUE)
    \/ Handle("preview_set_next", preview_set_next(Renders), 1, TRUE)
    \/ Handle("preview_set_prev", preview_set_prev(Renders), 1, TRUE)

SpecSteer == InitFirstRun /\ [][NextSteer]_vars

Max(a, b) == IF a >= b THEN a ELSE b

\* every navigation field but preview_slide is what it was before the last
\* handler
OnlyPreview ==
    /\ current_slide = pre.current_slide
    /\ last_preview_before_updown = pre.last_preview_before_updown
    /\ last_preview_used = pre.last_preview_used
    /\ remembered_preview = pre.remembered_preview

\* the last handler was one of the four steering commands and it fired
C13_Steered ==
    /\ pre.slide_cache # "None"
    /\ \/ Last("preview_next") /\ pre.preview_slide < pre.total_slides - 1
       \/ Last("preview_prev") /\ pre.preview_slide > 0
       \/ Last("preview_set_next")
       \/ Last("preview_set_prev")

\* C13 (SpecSteer), the claim as stated, the range for documents with pages:
\* a steering command that fires changes only preview, to preview + 1,
\* preview - 1, min(current + 1, total_slides - 1) or max(current - 1, 0),
\* and leaves it inside [0, total_slides - 1].
C13_SteeringEffect ==
    C13_Steered
        => /\ OnlyPreview
           /\ Last("preview_next") => preview_slide = pre.preview_slide + 1
           /\ Last("preview_prev") => preview_slide = pre.preview_slide - 1
           /\ Last("preview_set_next")
                => preview_slide = Min(current_slide + 1, total_slides - 1)
           /\ Last("preview_set_prev") => preview_slide = Max(current_slide - 1, 0)
           /\ total_slides >= 1
                => (0 <= preview_slide /\ preview_slide <= total_slides - 1)

\* C14 (SpecNav): remember stores the preview and changes no other
\* navigation field; no handler but remember and a load assigns the
\* remembered slot; recall with the slot set makes preview the remembered
\* index and changes no other navigation field; with no document no handler
\* changes a navigation field.  So a recall after a remember at preview = p,
\* with no remember and no load between them, gives preview = p.
C14_RememberRecall ==
    /\ (Last("preview_remember") /\ pre.slide_cache # "None")
         => /\ remembered_preview = {pre.preview_slide}
            /\ current_slide = pre.current_slide
            /\ preview_slide = pre.preview_slide
            /\ last_preview_before_updown = pre.last_preview_before_updown
            /\ last_preview_used = pre.last_preview_used
    /\ (trail # << >> /\ ~Last("preview_remember") /\ ~Last("load_pdf"))
         => remembered_preview = pre.remembered_preview
    /\ (Last("preview_goto_remembered") /\ pre.slide_cache # "None"
          /\ pre.remembered_preview # {})
         => ({preview_slide} = pre.remembered_preview /\ OnlyPreview)
    /\ (trail # << >> /\ ~Last("load_pdf") /\ pre.slide_cache = "None") => NavSame

\* a recall has brought the preview back to a remembered index it had left
C14_Witness ==
    /\ Last("preview_goto_remembered")
    /\ load_result = "ok"
    /\ pre.remembered_preview # {}
    /\ pre.remembered_preview # {pre.preview_slide}
    /\ {preview_slide} = pre.remembered_preview
    /\ remembered_preview = pre.remembered_preview

\* The SlideCache alone: caches are made for documents of up to CachePages
\* pages, asked for pages 0 .. CachePages in either tier with a rasterizer
\* that may raise, and closed.
CacheFrame ==
    UNCHANGED <<navVars, sessVars, dispVars, pending_update, pc, load_result, pre,
                notesVars>>

NextCache ==
    \/ \E n \in 0 .. CachePages :
         /\ SlideCacheInit(n)
         /\ probe' = NoProbe
         /\ raised' = FALSE
         /\ trail' = <<"SlideCache">>
         /\ CacheFrame
    \/ \E page_num \in 0 .. CachePages, high_res \in BOOLEAN, ok \in RasterOutcomes :
         /\ get_slide(page_num, high_res, ok)
         /\ trail' = <<"get_slide">>
         /\ CacheFrame
    \/ /\ SlideCacheClose
       /\ raised' = FALSE
       /\ trail' = <<"close">>
       /\ UNCHANGED probe
       /\ CacheFrame

SpecCache == InitFirstRun /\ [][NextCache]_vars

\* the dict of a tier
Tier(high_res) == IF high_res THEN fullscreen_cache ELSE cache

\* C15 (SpecCache): in the lifetime of one SlideCache no key has a bitmap
\* rendered for it more than once; while the document is open a key rendered
\* once stays stored, and only such keys are stored; a get_slide call whose
\* key is stored in its tier is a hit that changes neither dict, and whether
\* it is a hit depends on its own tier's dict only; a call never changes the
\* other tier's dict.
C15_RenderedOnce ==
    /\ \A k \in Keys : probe.rasterized[k] <= 1
    /\ slide_cache = "open"
         => \A k \in Keys : (k[2] \in Tier(k[1])) <=> (probe.rasterized[k] = 1)
    /\ Last("get_slide")
         => /\ (probe.outcome = "hit")
                 <=> (probe.page_num \in
                        IF probe.high_res THEN probe.fullscreen_cache ELSE probe.cache)
            /\ probe.outcome = "hit"
                 => (cache = probe.cache /\ fullscreen_cache = probe.fullscreen_cache)
            /\ probe.high_res => cache = probe.cache
            /\ ~probe.high_res => fullscreen_cache = probe.fullscreen_cache

\* a high-resolution request was a hit on a page the preview tier has not
\* rendered
C15_Witness ==
    /\ Last("get_slide")
    /\ slide_cache = "open"
    /\ probe.outcome = "hit"
    /\ probe.high_res
    /\ probe.page_num \notin cache
    /\ probe.rasterized[<<TRUE, probe.page_num>>] = 1
    /\ probe.rasterized[<<FALSE, probe.page_num>>] = 0
    /\ cache # {}

\* C16 (SpecCache): when the rasterizer raises for the requested key the
\* exception leaves get_slide, the key is in neither state of its dict
\* (nothing was stored, so the next request for it is not a hit and invokes
\* the rasterizer again), and both dicts hold what they held before.
C16_FailureNotCached ==
    (Last("get_slide") /\ probe.outcome = "raised")
        => /\ raised
           /\ probe.page_num \notin Tier(probe.high_res)
           /\ cache = probe.cache
           /\ fullscreen_cache = probe.fullscreen_cache

\* the rasterizer raised on a page of the open document, not yet rendered
\* in that tier, while other pages were stored in both tiers
C16_Witness ==
    /\ Last("get_slide")
    /\ probe.outcome = "raised"
    /\ slide_cache = "open"
    /\ probe.page_num < total_slides
    /\ probe.rasterized[<<probe.high_res, probe.page_num>>] = 0
    /\ cache # {}
    /\ fullscreen_cache # {}

\* C17 (SpecLoad), the claim as stated: the session never holds a cache
\* whose document is closed, and a load that failed to open the new document
\* leaves the cache object, its page count and the navigation fields as they
\* were before the call.
C17_FailedLoadKeepsDocument ==
    /\ slide_cache # "closed"
    /\ ((Last("load_pdf") \/ Last("load_pdf_restore")) /\ load_result = "open_failed")
         => /\ slide_cache = pre.slide_cache
            /\ total_slides = pre.total_slides
            /\ NavSame

\* The presentation session: a first run in which documents of up to
\* NavSlides pages are loaded, every load succeeding on a rasterizer that
\* renders, with the handlers that move current_slide, every handler of the
\* session and the timer.
NextLive ==
    \/ Construct(Renders, {FALSE}, NavTotals, 1, TRUE)
    \/ Load(Renders, NavTotals, {"none"}, 1, TRUE)
    \/ Handle("next_slide", next_slide(Renders), 1, TRUE)
    \/ Handle("prev_slide", prev_slide(Renders), 1, TRUE)
    \/ GoLive(Renders, 1, TRUE)
    \/ Session(Renders, 1, TRUE)

SpecLive == InitFirstRun /\ [][NextLive]_vars

\* C18 (SpecLive), the claim as stated, for documents with pages: whenever
\* the session is live and not blanked the audience window displays the
\* high-resolution bitmap of current_slide.
C18_AudienceShowsCurrent ==
    (is_presenting /\ ~is_blanked /\ load_result = "ok" /\ total_slides >= 1)
        => Displayed = {current_slide}

\* Blanking: a first run in which documents of 1 .. BlankSlides pages are
\* loaded on a rasterizer that may raise, with next_slide and the handlers
\* of the session.  The names of the last two handlers are kept; pre is the
\* state between the two.
BlankSlides == 2

NextBlank ==
    \/ Construct(RasterOutcomes, {FALSE}, 1 .. BlankSlides, 2, TRUE)
    \/ Load(RasterOutcomes, 1 .. BlankSlides, {"none"}, 2, TRUE)
    \/ Handle("next_slide", next_slide(RasterOutcomes), 2, TRUE)
    \/ Handle("start_from_current", start_from_current(RasterOutcomes), 2, TRUE)
    \/ Handle("stop_presenting", stop_presenting, 2, TRUE)
    \/ Handle("toggle_blank", toggle_blank(RasterOutcomes), 2, TRUE)

SpecBlank == InitFirstRun /\ [][NextBlank]_vars

\* the handler that ran last (specifications that keep several names)
LastOf(c) == trail # << >> /\ Head(trail) = c

\* C19 (SpecBlank): toggle_blank changes none of the five navigation
\* fields; a toggle_blank that unblanked (the session is live, it left
\* is_blanked false) and returned without an exception leaves the audience
\* window displaying the high-resolution bitmap of current_slide, whatever
\* was pushed or failed to be pushed while the window was blanked.
C19_BlankKeepsNavigation ==
    /\ LastOf("toggle_blank") => NavSame
    /\ (LastOf("toggle_blank") /\ is_presenting /\ fullscreen_window
          /\ ~is_blanked /\ ~raised)
         => Displayed = {current_slide}

\* an unblank followed an advance from slide 0 to slide 1 that ran while
\* the window was blanked
C19_Witness ==
    /\ trail = <<"toggle_blank", "next_slide">>
    /\ pre.current_slide = 1
    /\ pre.last_preview_before_updown = {}
    /\ is_presenting
    /\ ~is_blanked
    /\ ~raised
    /\ Displayed = {1}

\* one step of the session status: blanked only while presenting; a step
\* that starts presenting starts with a document loaded, not blanked, with
\* the start time taken; with no document no step changes the session; from
\* idle no step leads to blanked, and toggle_blank issued while idle changes
\* nothing at all; stop_presenting always ends idle and not blanked.
C20_Step ==
    /\ is_blanked' => is_presenting'
    /\ (~is_presenting /\ is_presenting')
         => (slide_cache # "None" /\ ~is_blanked' /\ start_time')
    /\ slide_cache = "None" => UNCHANGED sessVars
    /\ ~is_presenting => ~is_blanked'
    /\ (~is_presenting /\ trail' = <<"toggle_blank">>)
         => UNCHANGED <<cacheVars, navVars, sessVars, dispVars>>
    /\ trail' = <<"stop_presenting">>
         => (~is_presenting' /\ ~is_blanked' /\ ~start_time')

\* C20 (SpecLive): the session status follows idle -> live -> (blanked <->
\* live) -> idle: every step of the program is a step of C20_Step.
C20_SessionStatus == [][C20_Step]_vars

\* stop_presenting has ended a session that was blanked
C20_Witness ==
    /\ Last("stop_presenting")
    /\ fullscreen_window
    /\ fs_is_blanked
    /\ ~is_presenting
    /\ ~is_blanked
    /\ slide_cache = "open"

\* C21 (SpecLive): start_time is set exactly while is_presenting; the
\* duration readout shows a running time only while start_time is set, so
\* stop_presenting leaves it at the unset display with start_time cleared
\* and a tick that follows leaves it there.
C21_StartTime ==
    /\ start_time <=> is_presenting
    /\ duration_label = "running" => start_time
    /\ Last("stop_presenting") => (~start_time /\ duration_label = "unset")
    /\ (Last("update_time") /\ ~start_time) => duration_label = "unset"

\* the timer has ticked after a session was stopped
C21_Witness ==
    /\ Last("update_time")
    /\ fullscreen_window
    /\ fs_current_pixmap # {}
    /\ ~is_presenting
    /\ ~start_time
    /\ duration_label = "unset"

\* ------------------------------------------------------------------ notes
\* The NotesLoader alone: a notes file is written piece by piece and then
\* handed to NotesLoader(notes_path); NotesLoader(None) is made as well.
MaxPieces == 3

Example1 == <<"-", "-", "2", "-", "-", "\n", "f", "o", "o", "\n",
              "-", "-", "-", "\n", "b", "a", "r">>
Example2 == <<"a", "l", "p", "h", "a", "\n", "-", "-", "-", "\n",
              "b", "e", "t", "a", "\n", "-", "-", "-", "\n",
              "g", "a", "m", "m", "a">>

Pieces == { <<"-", "-", "-">>, <<"-", "-", "2", "-", "-">>,
            <<"-", "-", "0", "-", "-">>, <<"-", "-", "1", "0", "-", "-">>,
            <<"a">>, <<"\n">>, <<"-">>, <<"1">>, Example1, Example2 }

\* the text of a file written as pieces
RECURSIVE Text(_)
Text(pieces) == IF pieces = << >> THEN << >> ELSE Head(pieces) \o Text(Tail(pieces))

NotesFrame ==
    UNCHANGED <<cacheVars, navVars, sessVars, dispVars, pending_update, pc,
                load_result, pre, probe>>

\* NotesLoader(notes_path): __init__ parses the file when the path is given
\* and exists
NotesLoaderInit(path) ==
    /\ notes_loader' = {IF path THEN ParseNotes(Text(notes_file)) ELSE EmptyNotes}
    /\ raised' = FALSE
    /\ UNCHANGED notes_file

NextNotes ==
    \/ \E piece \in Pieces :
         /\ notes_loader = {}
         /\ Len(notes_file) < MaxPieces
         /\ notes_file' = Append(notes_file, piece)
         /\ trail' = <<"write">>
         /\ UNCHANGED <<notes_loader, raised>>
         /\ NotesFrame
    \/ /\ notes_loader = {}
       /\ NotesLoaderInit(TRUE)
       /\ trail' = <<"NotesLoader">>
       /\ NotesFrame
    \/ /\ notes_loader = {}
       /\ NotesLoaderInit(FALSE)
       /\ trail' = <<"NotesLoader_None">>
       /\ NotesFrame

SpecNotes == InitFirstRun /\ [][NextNotes]_vars

\* the notes held
Notes == Value(notes_loader)

\* the segments of a text, read off the text itself: a marker is --- or
\* --N-- with N one or more digits, and the first marker of a text is the
\* one that starts leftmost
IsBare(m) == m = <<"-", "-", "-">>

IsNumberedMarker(m) ==
    /\ Len(m) >= 5
    /\ m[1] = "-" /\ m[2] = "-" /\ m[Len(m) - 1] = "-" /\ m[Len(m)] = "-"
    /\ \A j \in 3 .. Len(m) - 2 : m[j] \in Digits

MarkerEnds(t, i) ==
    { j \in i .. Len(t) : IsBare(SubSeq(t, i, j)) \/ IsNumberedMarker(SubSeq(t, i, j)) }

MarkerStarts(t) == { i \in 1 .. Len(t) : MarkerEnds(t, i) # {} }

Least(S) == CHOOSE x \in S : \A y \in S : x <= y

Greatest(S) == CHOOSE x \in S : \A y \in S : y <= x

\* the number N of a marker --N--
MarkerNumber(m) == ToInt(SubSeq(m, 3, Len(m) - 2))

\* a text segment is stored at the counter without the whitespace around it,
\* replacing what is there; a whitespace-only segment stores nothing
Store(d, counter, seg) ==
    LET ink == { i \in 1 .. Len(seg) : seg[i] \notin Whitespace }
    IN  IF ink = {} THEN d
        ELSE [ x \in DOMAIN d \cup {counter} |->
                 IF x = counter THEN SubSeq(seg, Least(ink), Greatest(ink)) ELSE d[x] ]

RECURSIVE Fold(_, _, _)
Fold(t, counter, d) ==
    IF MarkerStarts(t) = {} THEN Store(d, counter, t)
    ELSE LET i == Least(MarkerStarts(t))
             j == Least(MarkerEnds(t, i))
             m == SubSeq(t, i, j)
         IN  Fold(SubSeq(t, j + 1, Len(t)),
                  IF IsBare(m) THEN counter + 1 ELSE MarkerNumber(m) - 1,
                  Store(d, counter, SubSeq(t, 1, i - 1)))

Foo   == <<"f", "o", "o">>
Bar   == <<"b", "a", "r">>
Alpha == <<"a", "l", "p", "h", "a">>
Beta  == <<"b", "e", "t", "a">>
Gamma == <<"g", "a", "m", "m", "a">>

\* C22: the notes parsed from a file are the left-to-right fold over its
\* marker and text segments with a counter that starts at 0: --- adds one
\* to the counter, --N-- sets it to N - 1, a text segment that is not only
\* whitespace is stored at the counter in place of what was there, a
\* whitespace-only segment stores nothing; "--2--\nfoo\n---\nbar" gives
\* {1: foo, 2: bar} and "alpha\n---\nbeta\n---\ngamma" gives
\* {0: alpha, 1: beta, 2: gamma}.
C22_ParseIsFold ==
    Last("NotesLoader") =>
        /\ Notes = Fold(Text(notes_file), 0, EmptyNotes)
        /\ notes_file = <<Example1>>
             => (DOMAIN Notes = {1, 2} /\ Notes[1] = Foo /\ Notes[2] = Bar)
        /\ notes_file = <<Example2>>
             => /\ DOMAIN Notes = {0, 1, 2}
                /\ Notes[0] = Alpha /\ Notes[1] = Beta /\ Notes[2] = Gamma

\* a file where a later segment replaces the text an earlier one stored at
\* the same index
C22_Witness ==
    /\ Last("NotesLoader")
    /\ notes_file = << Example1, <<"-", "-", "2", "-", "-">>, <<"a">> >>
    /\ DOMAIN Notes = {1, 2}
    /\ Notes[1] = <<"a">>
    /\ Notes[2] = Bar

\* C23: every key of the notes parsed from a file is a non-negative
\* integer, whatever the text and whatever marker --N-- with N >= 0 it
\* holds, and get_notes gives the empty text for every index that is not a
\* key.
C23_KeysNonNegative ==
    Last("NotesLoader") =>
        /\ \A k \in DOMAIN Notes : k \in Nat
        /\ \A i \in -1 .. 10 : i \notin DOMAIN Notes => get_notes(Notes, i) = << >>

\* ------------------------------------------------- documents and their notes
\* A notes file as _load_pdf and _load_notes meet it: it exists or not, open()
\* succeeds on it or raises OSError, and it holds a text.
NoNotesFile     == [exists |-> FALSE, readable |-> FALSE, text |-> << >>]
UnreadableNotes == [exists |-> TRUE, readable |-> FALSE, text |-> << >>]
ReadableNotes(text) == [exists |-> TRUE, readable |-> TRUE, text |-> text]

\* NotesLoader(path).notes for a file that open() succeeds on, if it exists
NotesOf(f) == IF f.exists THEN ParseNotes(f.text) ELSE EmptyNotes

\* _load_pdf(pdf_path, restore_slide) with its NotesLoader: colocated is the
\* file <stem>_notes.txt next to the document, opens tells whether
\* SlideCache(pdf_path) succeeds.  The notes are replaced when the statement
\* is reached and does not raise.
load_pdf_notes(R, n, restore, colocated, opens) ==
    LET fail == IF ~opens THEN "open"
                ELSE IF colocated.exists /\ ~colocated.readable THEN "notes"
                ELSE "none"
    IN  /\ load_pdf(R, n, restore, fail)
        /\ notes_loader' = IF fail = "none" THEN {NotesOf(colocated)} ELSE notes_loader

\* _load_notes(notes_path) for an existing file f.  Nothing catches what
\* NotesLoader or update_slides raise.
load_notes(R, f) ==
    IF slide_cache = "None"
    THEN NoOp /\ UNCHANGED notes_loader
    ELSE IF f.exists /\ ~f.readable
    THEN /\ raised' = TRUE
         /\ UNCHANGED <<cacheVars, navVars, sessVars, dispVars, pending_update,
                        load_result, notes_loader>>
    ELSE /\ notes_loader' = {NotesOf(f)}
         /\ Refresh(R, current_slide, preview_slide)
         /\ UNCHANGED <<slide_cache, total_slides, navVars, sessVars,
                        pending_update, load_result>>

\* Files dropped on the window: a document of up to DropSlides pages that
\* may fail to open, with or without a <stem>_notes.txt next to it, and a
\* notes file; a drop holds one of them or both, in either order.
DropSlides == 2

DroppedNotes == { <<Example1>>, << <<"1">> >> }
CoLocated    == { NoNotesFile, UnreadableNotes, ReadableNotes(<<"a">>) }
UrlLists     == { <<"pdf">>, <<"txt">>, <<"pdf", "txt">>, <<"txt", "pdf">> }

\* the body of the loop of dropEvent for one url; pieces is the dropped
\* notes file
DropUrl(R, url, pieces) ==
    IF url = "pdf"
    THEN \E n \in 1 .. DropSlides, colocated \in CoLocated, opens \in BOOLEAN :
            load_pdf_notes(R, n, FALSE, colocated, opens)
    ELSE \E readable \in BOOLEAN :
            load_notes(R, IF readable THEN ReadableNotes(Text(pieces))
                          ELSE UnreadableNotes)

\* dropEvent(event) up to the end of the first pass of its loop: pc tells
\* which url is left when there are two, an exception ends the handler
dropEvent_first(R) ==
    \E urls \in UrlLists, pieces \in DroppedNotes :
        /\ pc = "running"
        /\ notes_file' = IF \E i \in DOMAIN urls : urls[i] = "txt"
                         THEN pieces ELSE notes_file
        /\ DropUrl(R, urls[1], pieces)
        /\ pc' = IF Len(urls) = 1 \/ raised' THEN "running"
                 ELSE IF urls[2] = "pdf" THEN "dropEvent_pdf" ELSE "dropEvent_txt"
        /\ trail' = << IF Len(urls) = 2 THEN IF raised' THEN "drop_raised" ELSE "dropEvent"
                       ELSE IF urls[1] = "pdf" THEN "drop_pdf" ELSE "drop_txt" >>
        /\ pre' = Snapshot
        /\ UNCHANGED probe

\* the second pass of the loop
dropEvent_second(R) ==
    /\ pc \in {"dropEvent_pdf", "dropEvent_txt"}
    /\ DropUrl(R, IF pc = "dropEvent_pdf" THEN "pdf" ELSE "txt", notes_file)
    /\ pc' = "running"
    /\ trail' = << IF pc = "dropEvent_pdf" THEN "drop_txt_pdf" ELSE "drop_pdf_txt" >>
    /\ UNCHANGED <<pre, probe, notes_file>>

NextDrop ==
    \/ Construct(Renders, {FALSE}, {0}, 1, TRUE)
    \/ dropEvent_first(Renders)
    \/ dropEvent_second(Renders)
    \/ Handle("next_slide", next_slide(Renders), 1, TRUE)

SpecDrop == InitFirstRun /\ [][NextDrop]_vars

\* C24: a notes file that cannot be read is not fatal.  When _load_notes is
\* handed one, no error escapes and the notes are empty; when _load_pdf
\* meets one next to the document, no error escapes and the document, the
\* cache, the current and the preview slide are those of a load without a
\* notes file, with empty notes.
C24_UnreadableNotesHarmless ==
    /\ (Last("drop_txt") /\ slide_cache = "open" /\ current_slide < total_slides)
         => (~raised /\ notes_loader # {})
    /\ (Last("drop_pdf") /\ load_result = "notes_failed")
         => /\ ~raised
            /\ notes_loader = {EmptyNotes}
            /\ slide_cache = "open"
            /\ current_slide = 0
            /\ preview_slide = ClampNext(0, total_slides)
            /\ cache = {current_slide, preview_slide}

\* C25: when a document and a notes file are dropped together and both
\* loads have completed, the notes are the parse of the dropped notes file,
\* whichever of the two was loaded first, and nothing else is in them.
C25_ExplicitNotesWin ==
    ((Last("drop_pdf_txt") \/ Last("drop_txt_pdf")) /\ ~raised /\ load_result = "ok")
        => notes_loader = {ParseNotes(Text(notes_file))}

\* ------------------------------------------------------------- cache tiers
\* Documents of up to TierSlides pages are loaded, with loads that fail, and
\* shown: navigation, presenting and stopping, and the program is closed
\* and started again.
TierSlides == 2

NextTiers ==
    \/ Construct(Renders, {FALSE}, {0}, 1, TRUE)
    \/ Restart(1, TRUE)
    \/ Load(Renders, 0 .. TierSlides, LoadFailures, 1, TRUE)
    \/ Handle("next_slide", next_slide(Renders), 1, TRUE)
    \/ Handle("prev_slide", prev_slide(Renders), 1, TRUE)
    \/ Handle("start_from_current", start_from_current(Renders), 1, TRUE)
    \/ Handle("stop_presenting", stop_presenting, 1, TRUE)

SpecTiers == InitFirstRun /\ [][NextTiers]_vars

C26_Step ==
    (trail' # << >> /\ Head(trail') \notin {"load_pdf", "restart"})
        => (cache \subseteq cache' /\ fullscreen_cache \subseteq fullscreen_cache')

C26_Tiers ==
    /\ cache \subseteq 0 .. total_slides - 1
    /\ fullscreen_cache \subseteq 0 .. total_slides - 1
    /\ Cardinality(cache) + Cardinality(fullscreen_cache) <= 2 * total_slides
    /\ slide_cache = "closed" => (cache = {} /\ fullscreen_cache = {})
    /\ (Last("load_pdf") /\ load_result = "ok")
         => /\ cache \subseteq {current_slide, preview_slide}
            /\ fullscreen_cache \subseteq {current_slide}

\* C26: while a document is held no navigation or session command removes
\* an entry of either cache tier, the keys of both tiers are pages of the
\* document, so the tiers hold at most 2 x total_slides entries together;
\* a closed cache has both tiers empty, and after a successful load the
\* tiers hold nothing but what the load itself rendered.
C26_TiersOnlyGrow == []C26_Tiers /\ [][C26_Step]_vars

\* C27: the session's is_blanked and the audience window's is_blanked agree
\* in every reachable state, whatever the order of start, blank, stop and
\* navigation; after blank, stop and start of a presentation neither of the
\* two is set.
C27_BlankFlagsAgree ==
    /\ is_blanked <=> fs_is_blanked
    /\ ((LastOf("start_from_beginning") \/ LastOf("start_from_current")) /\ is_presenting)
         => (~is_blanked /\ ~fs_is_blanked)

\* C28: after every _load_pdf, however it ended, current_slide is a page of
\* the document of the cache that is held when that document has pages.
C28_LoadLeavesCurrentValid ==
    ((Last("load_pdf") \/ Last("load_pdf_restore")) /\ slide_cache # "None"
        /\ total_slides >= 1)
        => (0 <= current_slide /\ current_slide < total_slides)

\* C29: in every reachable state last_preview_used is set only when
\* last_preview_before_updown holds an index; a load and every navigation
\* command keep it so.
C29_UsedOnlyWithOrigin == last_preview_used => last_preview_before_updown # {}

\* the origin of a detour has been restored and is still kept
C29_Witness ==
    /\ Last("preview_restore_last")
    /\ last_preview_used
    /\ last_preview_before_updown = {0}
    /\ preview_slide = 0
    /\ current_slide = 2

\* a command that changes current_slide has run to its end: an advance or a
\* retreat that moved, a start from the beginning, a load that rendered the
\* first slide
C30_Completed ==
    \/ /\ Last("next_slide") \/ Last("prev_slide")
       /\ ~raised
       /\ current_slide # pre.current_slide
    \/ Last("start_from_beginning") /\ ~raised /\ slide_cache # "None"
    \/ Last("load_pdf") /\ load_result = "ok" /\ current_slide \in cache

\* C30: after every completed command that changes current_slide the
\* persisted Session/last_slide equals current_slide, and a restoring load
\* of the same document would set current_slide to the value it has.
C30_PersistedIsCurrent ==
    C30_Completed
        => /\ last_slide = current_slide
           /\ StartSlide(TRUE, last_slide, total_slides) = current_slide
====
